---- MODULE Spec2Model ----
(***************************************************************************)
(* Model of crates/symbolicator-service/src/download/compression.rs:       *)
(* maybe_decompress_file and tempfile_in_parent.                           *)
(*                                                                         *)
(* The state is the file system seen by one caller (the named temporary    *)
(* files, their paths and contents), the caller's NamedTempFile handle     *)
(* `src`, the local handle `dst`, the locals of maybe_decompress_file and  *)
(* the metric / log events it emits.  Every `?` of the function is a step  *)
(* that either succeeds or returns the I/O error.                          *)
(***************************************************************************)
EXTENDS Integers, Sequences, FiniteSets

VARIABLES
    windows,      \* cfg!(target_os = "windows") of the build
    fs,           \* file id -> [live, path, content]
    src,          \* the caller's handle: [id, cursor]
    dst,          \* the local `dst` handle, or NoHandle
    pc,           \* position inside maybe_decompress_file
    calls,        \* number of invocations started so far
    len,          \* metadata.len()
    magic_bytes,  \* the local `magic_bytes`
    branch,       \* match arm taken ("short" = the early return of line 22)
    command,      \* the local `command`: [tool, args, stdout, stderr]
    output,       \* the local `output`: [success, stdout, stderr]
    child,        \* what became of the child process of the current invocation
    result,       \* value returned by the call
    events,       \* metric!/info!/error! events of the current invocation
    orig,         \* the caller's file when the current invocation started
    artifact0     \* the caller's file when it was handed over by the download layer

vars == <<windows, fs, src, dst, pc, calls, len, magic_bytes, branch, command,
          output, child, result, events, orig, artifact0>>

----------------------------------------------------------------------------
(* Bounds *)

\* bytes of an artifact that follow the 4 sniffed bytes
MaxTail == 1
\* invocations of maybe_decompress_file on the same handle
MaxCalls == 2

----------------------------------------------------------------------------
(* Values *)

NoHandle == [id |-> 0, cursor |-> 0]
NoPath == <<>>
FileIds == 1 .. (MaxCalls + 1)
Dead == [live |-> FALSE, path |-> NoPath, content |-> <<>>]

\* directories the download layer may have put the artifact in
Dirs == { <<"tmp">>, <<"cache", "objects">> }

\* NamedTempFile::new_in gives every file a fresh name
Name(id) == CASE id = 1 -> ".tmpA" [] id = 2 -> ".tmpB" [] id = 3 -> ".tmpC"
              [] OTHER -> ".tmpD"

\* Candidate bytes per offset: every byte a pattern of the match names at that
\* offset, and 0 as a byte no pattern names.
ByteAt(i) ==
    CASE i = 1 -> {40, 31, 120, 80, 77, 0}                \* 28 1f 78 50 4d
      [] i = 2 -> {181, 139, 1, 156, 218, 75, 83, 0}      \* b5 8b 01 9c da 4b 53
      [] i = 3 -> {47, 3, 67, 0}                          \* 2f 03 43
      [] i = 4 -> {253, 4, 70, 0}                         \* fd 04 46
      [] OTHER -> {0}

RECURSIVE SeqsOver(_)
\* all byte sequences of length n whose i-th byte is in ByteAt(i)
SeqsOver(n) ==
    IF n = 0 THEN { <<>> }
    ELSE { Append(s, b) : s \in SeqsOver(n - 1), b \in ByteAt(n) }

Artifacts == UNION { SeqsOver(n) : n \in 0 .. (4 + MaxTail) }

\* what the external tool may write as the extracted file
Payloads == { <<104, 105>>, <<77, 83, 67, 70>> }

\* raw bytes a child may leave on a piped stream, as tokens; "\\xFF" is a byte
\* sequence that is not valid UTF-8
RawStreams == { <<>>, <<"no valid cabinets found">>, <<"bad", "\\xFF">> }

----------------------------------------------------------------------------
(* Helpers *)

Ok == [status |-> "Ok", kind |-> "", at |-> "", msg |-> <<>>]
Pending == [status |-> "Pending", kind |-> "", at |-> "", msg |-> <<>>]
IoError(k, where, m) == [status |-> "Err", kind |-> k, at |-> where, msg |-> m]
OsError(where) == IoError("Other", where, <<"os error">>)

NoCommand == [tool |-> "", args |-> <<>>, stdout |-> "", stderr |-> ""]
NoOutput == [success |-> FALSE, stdout |-> <<>>, stderr |-> <<>>]

Event(k, n, t, a) == [kind |-> k, name |-> n, tag |-> t, args |-> a]

\* Path::parent: the path without its final component, None for an empty path
Parent(path) == IF Len(path) = 0 THEN NoPath ELSE SubSeq(path, 1, Len(path) - 1)
HasParent(path) == Len(path) > 0

\* String::from_utf8_lossy: invalid sequences become U+FFFD
Utf8Lossy(raw) == [i \in 1 .. Len(raw) |-> IF raw[i] = "\\xFF" THEN "\\u{FFFD}" ELSE raw[i]]

\* NamedTempFile::new_in picks a name no file has had: the initial artifact is
\* file 1 and invocation k creates at most one file, file k + 1
FreshId == calls + 1

\* metadata.len() / the bytes of the file a handle refers to
Content(h) == fs[h.id].content
PathOf(h) == fs[h.id].path

\* a `_` of a pattern matches every u8
Any == 0 .. 255

\* Mutant of MatchArms: the 78 9c pattern of the zlib arm is lost
MatchArmsTypo == <<
    [arm |-> "zstd", pats |-> { <<{40}, {181}, {47}, {253}>> }],
    [arm |-> "gzip", pats |-> { <<{31}, {139}, Any, Any>> }],
    [arm |-> "zlib", pats |-> { <<{120}, {1}, Any, Any>>, <<{120}, {218}, Any, Any>> }],
    [arm |-> "zip",  pats |-> { <<{80}, {75}, {3}, {4}>> }],
    [arm |-> "cab",  pats |-> { <<{77}, {83}, {67}, {70}>> }] >>

\* the arms of `match magic_bytes`, in source order (lines 30-34)
MatchArms == <<
    [arm |-> "zstd", pats |-> { <<{40}, {181}, {47}, {253}>> }],
    [arm |-> "gzip", pats |-> { <<{31}, {139}, Any, Any>> }],
    [arm |-> "zlib", pats |-> { <<{120}, {1}, Any, Any>>, <<{120}, {156}, Any, Any>>,
                                <<{120}, {218}, Any, Any>> }],
    [arm |-> "zip",  pats |-> { <<{80}, {75}, {3}, {4}>> }],
    [arm |-> "cab",  pats |-> { <<{77}, {83}, {67}, {70}>> }] >>

PatMatches(pat, bytes) == \A i \in 1 .. 4 : bytes[i] \in pat[i]
ArmMatches(i, bytes) == \E pat \in MatchArms[i].pats : PatMatches(pat, bytes)

\* the arm `match` selects: the first one with a matching pattern, else `_`
MatchArm(bytes) ==
    IF \E i \in 1 .. Len(MatchArms) : ArmMatches(i, bytes)
    THEN MatchArms[CHOOSE i \in 1 .. Len(MatchArms) :
                       /\ ArmMatches(i, bytes)
                       /\ \A j \in 1 .. (i - 1) : ~ArmMatches(j, bytes)].arm
    ELSE "none"

\* the tool of lines 39-43
Tool == IF windows THEN "expand" ELSE "cabextract"

----------------------------------------------------------------------------
(* Initial state: the download layer has written one artifact into a named   *)
(* temporary file and holds its handle; the write left the cursor at the end *)
(* of the file or the handle was rewound.                                    *)

Init ==
    /\ windows \in BOOLEAN
    /\ \E d \in Dirs, c \in Artifacts :
         /\ fs = [i \in FileIds |->
                    IF i = 1 THEN [live |-> TRUE, path |-> Append(d, Name(1)), content |-> c]
                    ELSE Dead]
         /\ src \in { [id |-> 1, cursor |-> k] : k \in {0, Len(c)} }
         /\ artifact0 = [id |-> 1, path |-> Append(d, Name(1)), content |-> c]
         /\ orig = artifact0
    /\ dst = NoHandle
    /\ pc = "idle"
    /\ calls = 0
    /\ len = 0
    /\ magic_bytes = <<0, 0, 0, 0>>
    /\ branch = "unset"
    /\ command = NoCommand
    /\ output = NoOutput
    /\ child = "none"
    /\ result = Pending
    /\ events = <<>>

----------------------------------------------------------------------------
(* Steps of maybe_decompress_file *)

\* `return Err(e)` / `?` / falling through to `Ok(())`: the value to return is
\* fixed, the locals are still to be dropped
Return(r) ==
    /\ result' = r
    /\ pc' = "exit"

\* the caller invokes maybe_decompress_file(&mut src) (line 13)
Call ==
    /\ pc \in {"idle", "done"}
    /\ calls < MaxCalls
    /\ calls' = calls + 1
    /\ pc' = "sync_all"
    /\ orig' = [id |-> src.id, path |-> PathOf(src), content |-> Content(src)]
    /\ len' = 0
    /\ magic_bytes' = <<0, 0, 0, 0>>
    /\ branch' = "unset"
    /\ command' = NoCommand
    /\ output' = NoOutput
    /\ result' = Pending
    /\ events' = <<>>
    /\ child' = "none"
    /\ UNCHANGED <<windows, fs, src, dst, artifact0>>

\* file.sync_all()? (line 15)
SyncAll ==
    /\ pc = "sync_all"
    /\ \/ pc' = "metadata" /\ UNCHANGED result
       \/ Return(OsError("sync_all"))
    /\ UNCHANGED <<windows, child, fs, src, dst, calls, len, magic_bytes, branch, command,
                   output, events, orig, artifact0>>

\* file.metadata()? and the objects.size metric (lines 17-18)
Metadata ==
    /\ pc = "metadata"
    /\ \/ /\ len' = Len(Content(src))
          /\ events' = Append(events, Event("time_raw", "objects.size", "", <<Len(Content(src))>>))
          /\ pc' = "rewind"
          /\ UNCHANGED result
       \/ /\ Return(OsError("metadata"))
          /\ UNCHANGED <<len, events>>
    /\ UNCHANGED <<windows, child, fs, src, dst, calls, magic_bytes, branch, command,
                   output, orig, artifact0>>

\* file.rewind()? (line 20)
Rewind ==
    /\ pc = "rewind"
    /\ \/ /\ src' = [src EXCEPT !.cursor = 0]
          /\ pc' = "check_len"
          /\ UNCHANGED result
       \/ /\ Return(OsError("rewind"))
          /\ UNCHANGED src
    /\ UNCHANGED <<windows, child, fs, dst, calls, len, magic_bytes, branch, command,
                   output, events, orig, artifact0>>

\* Mutant of CheckLen: the early return for short files is missing
CheckLenNoEarlyReturn ==
    /\ pc = "check_len"
    /\ pc' = "read_exact"
    /\ UNCHANGED <<branch, result>>
    /\ UNCHANGED <<windows, child, fs, src, dst, calls, len, magic_bytes, command,
                   output, events, orig, artifact0>>

\* if metadata.len() < 4 { return Ok(()) } (lines 21-23)
CheckLen ==
    /\ pc = "check_len"
    /\ IF len < 4
       THEN /\ branch' = "short"
            /\ Return(Ok)
       ELSE /\ pc' = "read_exact"
            /\ UNCHANGED <<branch, result>>
    /\ UNCHANGED <<windows, child, fs, src, dst, calls, len, magic_bytes, command,
                   output, events, orig, artifact0>>

\* file.read_exact(&mut magic_bytes)? (lines 25-26): 4 bytes from the cursor,
\* UnexpectedEof when fewer are left; a failed read leaves the cursor anywhere
\* it may have got to
ReadExact ==
    /\ pc = "read_exact"
    /\ \/ /\ src.cursor + 4 <= Len(Content(src))
          /\ magic_bytes' = SubSeq(Content(src), src.cursor + 1, src.cursor + 4)
          /\ src' = [src EXCEPT !.cursor = @ + 4]
          /\ pc' = "rewind2"
          /\ UNCHANGED result
       \/ /\ src.cursor + 4 > Len(Content(src))
          /\ src' = [src EXCEPT !.cursor = Len(Content(src))]
          /\ Return(IoError("UnexpectedEof", "read_exact", <<"failed to fill whole buffer">>))
          /\ UNCHANGED magic_bytes
       \/ /\ \E k \in 0 .. 4 :
                /\ src.cursor + k <= Len(Content(src))
                /\ src' = [src EXCEPT !.cursor = @ + k]
          /\ Return(OsError("read_exact"))
          /\ UNCHANGED magic_bytes
    /\ UNCHANGED <<windows, child, fs, dst, calls, len, branch, command,
                   output, events, orig, artifact0>>

\* Mutant of Rewind2: the cursor is not reset after the read
Rewind2Skipped ==
    /\ pc = "rewind2"
    /\ pc' = "match"
    /\ UNCHANGED <<windows, child, fs, src, dst, calls, len, magic_bytes, branch, command,
                   output, result, events, orig, artifact0>>

\* file.rewind()? (line 27)
Rewind2 ==
    /\ pc = "rewind2"
    /\ \/ /\ src' = [src EXCEPT !.cursor = 0]
          /\ pc' = "match"
          /\ UNCHANGED result
       \/ /\ Return(OsError("rewind2"))
          /\ UNCHANGED src
    /\ UNCHANGED <<windows, child, fs, dst, calls, len, magic_bytes, branch, command,
                   output, events, orig, artifact0>>

\* match magic_bytes { ... } (lines 29-35 and 94-97): the zstd, gzip, zlib and
\* zip arms are empty blocks, the cab arm counts and goes on, `_` counts and logs
Match ==
    /\ pc = "match"
    /\ branch' = MatchArm(magic_bytes)
    /\ CASE branch' \in {"zstd", "gzip", "zlib", "zip"} ->
              /\ Return(Ok)
              /\ UNCHANGED events
         [] branch' = "cab" ->
              /\ events' = Append(events, Event("counter", "compression", "cab", <<>>))
              /\ pc' = "tempfile"
              /\ UNCHANGED result
         [] OTHER ->
              /\ events' = events \o
                    << Event("counter", "compression", "none", <<>>),
                       Event("info", "File is not compressed, skipping decompression",
                             "", PathOf(src)) >>
              /\ Return(Ok)
    /\ UNCHANGED <<windows, child, fs, src, dst, calls, len, magic_bytes, command,
                   output, orig, artifact0>>

\* Mutant of TempDir: the file is created in the default temporary directory
TempDirDefault(path) == <<"tmp">>

\* tempfile_in_parent (lines 104-110): the directory the new file goes to
TempDir(path) == Parent(path)

\* let mut dst = tempfile_in_parent(src)? (line 37): a new, empty, uniquely
\* named file in the parent directory of src's path
TempfileInParent ==
    /\ pc = "tempfile"
    /\ \/ /\ HasParent(PathOf(src))
          /\ fs' = [fs EXCEPT ![FreshId] =
                       [live |-> TRUE,
                        path |-> Append(TempDir(PathOf(src)), Name(FreshId)),
                        content |-> <<>>]]
          /\ dst' = [id |-> FreshId, cursor |-> 0]
          /\ pc' = "command"
          /\ UNCHANGED result
       \/ /\ ~HasParent(PathOf(src))
          /\ Return(IoError("NotFound", "tempfile", <<"entity not found">>))
          /\ UNCHANGED <<fs, dst>>
       \/ /\ Return(OsError("tempfile"))
          /\ UNCHANGED <<fs, dst>>
    /\ UNCHANGED <<windows, child, src, calls, len, magic_bytes, branch, command,
                   output, events, orig, artifact0>>

\* Command::new(tool) and its arguments and streams (lines 39-59); off Windows
\* dst.reopen()? may fail
BuildCommand ==
    /\ pc = "command"
    /\ IF windows
       THEN /\ command' = [tool |-> Tool, args |-> <<PathOf(src), PathOf(dst)>>,
                           stdout |-> "piped", stderr |-> "piped"]
            /\ pc' = "output"
            /\ UNCHANGED result
       ELSE \/ /\ command' = [tool |-> Tool, args |-> << <<"-sfqp">>, PathOf(src) >>,
                              stdout |-> "dst", stderr |-> "piped"]
               /\ pc' = "output"
               /\ UNCHANGED result
            \/ /\ Return(OsError("reopen"))
               /\ UNCHANGED command
    /\ UNCHANGED <<windows, child, fs, src, dst, calls, len, magic_bytes, branch,
                   output, events, orig, artifact0>>

\* let output = command.output()? and the three info! lines (lines 61-68):
\* the spawn fails, or the child runs to its exit, writes the destination file
\* (through its stdout off Windows, through the path on Windows) and leaves
\* bytes on the piped streams
Output ==
    /\ pc = "output"
    /\ \/ /\ child' = "spawn_failed"
          /\ Return(IoError("NotFound", "spawn", <<"No such file or directory (os error 2)">>))
          /\ UNCHANGED <<fs, output, events>>
       \/ \E ok \in BOOLEAN, data \in Payloads \cup { <<>> },
             err \in RawStreams,
             out \in IF command.stdout = "piped" THEN RawStreams ELSE { <<>> } :
             /\ child' = IF ok THEN "exited_ok" ELSE "exited_failure"
             /\ fs' = [fs EXCEPT ![dst.id].content = data]
             /\ output' = [success |-> ok, stdout |-> out, stderr |-> err]
             /\ events' = events \o
                   << Event("info", "Command executed", command.tool, <<>>),
                      Event("info", "Command stdout", "", Utf8Lossy(out)),
                      Event("info", "Command stderr", "", Utf8Lossy(err)) >>
             /\ pc' = "check_status"
             /\ UNCHANGED result
    /\ UNCHANGED <<windows, src, dst, calls, len, magic_bytes, branch, command,
                   orig, artifact0>>

\* Mutant of ErrorMessage: the message leaves the tool out
ErrorMessageNoTool(tool, stderr) == <<"Failed to decompress CAB file: ">> \o stderr

\* format!("Failed to decompress CAB file with '{}': {}", tool, stderr) (lines 79-82)
ErrorMessage(tool, stderr) ==
    <<"Failed to decompress CAB file with '", tool, "': ">> \o stderr

\* Mutant of CheckStatus: the handles are exchanged before the status is looked at
CheckStatusSwapEarly ==
    /\ pc = "check_status"
    /\ src' = dst
    /\ dst' = src
    /\ IF ~output.success
       THEN /\ Return(IoError("InvalidData", "status",
                              <<"Failed to decompress CAB file with '", Tool, "': ">>
                                  \o Utf8Lossy(output.stderr)))
       ELSE /\ Return(Ok)
    /\ UNCHANGED <<windows, child, fs, calls, len, magic_bytes, branch, command,
                   output, events, orig, artifact0>>

\* if !output.status.success() { error!; return Err } else info! (lines 70-90)
CheckStatus ==
    /\ pc = "check_status"
    /\ IF ~output.success
       THEN /\ events' = Append(events,
                   Event("error", "Failed to decompress CAB file", Tool,
                         PathOf(src) \o Utf8Lossy(output.stderr)))
            /\ Return(IoError("InvalidData", "status",
                              ErrorMessage(Tool, Utf8Lossy(output.stderr))))
       ELSE /\ events' = Append(events,
                   Event("info", "Successfully decompressed CAB file", Tool, PathOf(src)))
            /\ pc' = "swap"
            /\ UNCHANGED result
    /\ UNCHANGED <<windows, child, fs, src, dst, calls, len, magic_bytes, branch, command,
                   output, orig, artifact0>>

\* Mutant of Swap: the exchange is lost, the caller keeps the old handle
SwapNoExchange ==
    /\ pc = "swap"
    /\ Return(Ok)
    /\ UNCHANGED <<windows, child, fs, src, dst, calls, len, magic_bytes, branch, command,
                   output, events, orig, artifact0>>

\* std::mem::swap(src, &mut dst) (line 92), then on to Ok(()) (line 100)
Swap ==
    /\ pc = "swap"
    /\ src' = dst
    /\ dst' = src
    /\ Return(Ok)
    /\ UNCHANGED <<windows, child, fs, calls, len, magic_bytes, branch, command,
                   output, events, orig, artifact0>>

\* Mutant of Drop: the dropped handle keeps its file (as after keep())
DropKeep(files, h) == files

\* dropping a NamedTempFile deletes the file it names (nothing else removes or
\* renames a temporary file while its handle is held)
Drop(files, h) == IF h = NoHandle THEN files ELSE [files EXCEPT ![h.id] = Dead]

\* the function returns: `dst` goes out of scope (line 93, or the early
\* returns of lines 57, 61 and 77) and the caller gets the result
ScopeExit ==
    /\ pc = "exit"
    /\ fs' = Drop(fs, dst)
    /\ dst' = NoHandle
    /\ pc' = "done"
    /\ UNCHANGED <<windows, child, src, calls, len, magic_bytes, branch, command,
                   output, result, events, orig, artifact0>>

----------------------------------------------------------------------------

Next ==
    \/ Call
    \/ SyncAll
    \/ Metadata
    \/ Rewind
    \/ CheckLen
    \/ ReadExact
    \/ Rewind2
    \/ Match
    \/ TempfileInParent
    \/ BuildCommand
    \/ Output
    \/ CheckStatus
    \/ Swap
    \/ ScopeExit

Spec == Init /\ [][Next]_vars

----------------------------------------------------------------------------
(* Properties *)

\* the files that exist
Live == { i \in FileIds : fs[i].live }

\* the file tempfile_in_parent creates during the current invocation
NewId == calls + 1

\* the classification a branch stands for: the early return treats a short
\* file as not compressed
Classification(b) == IF b = "short" THEN "none" ELSE b

InProcess == {"zstd", "gzip", "zlib", "zip"}

\* The classification table of the specification, one row per kind, with no
\* order among the rows.
Row(kind, b) ==
    CASE kind = "zstd" -> b[1] = 40 /\ b[2] = 181 /\ b[3] = 47 /\ b[4] = 253
      [] kind = "gzip" -> b[1] = 31 /\ b[2] = 139
      [] kind = "zlib" -> b[1] = 120 /\ b[2] \in {1, 156, 218}
      [] kind = "zip"  -> b[1] = 80 /\ b[2] = 75 /\ b[3] = 3 /\ b[4] = 4
      [] kind = "cab"  -> b[1] = 77 /\ b[2] = 83 /\ b[3] = 67 /\ b[4] = 70
      [] OTHER -> FALSE

\* the kinds whose row matches a file's content (none for a file of < 4 bytes)
Rows(content) ==
    IF Len(content) < 4 THEN {}
    ELSE { k \in InProcess \cup {"cab"} : Row(k, SubSeq(content, 1, 4)) }

TableKind(content) ==
    IF Rows(content) = {} THEN "none" ELSE CHOOSE k \in Rows(content) : TRUE

\* the plaintext of a stream; the codecs are libraries outside this file, a
\* stream is taken to be its signature followed by the stored plaintext
Plaintext(stream) == SubSeq(stream, 5, Len(stream))

\* `sub` occurs in `msg` as consecutive tokens
ContainsTokens(msg, sub) ==
    \E i \in 0 .. (Len(msg) - Len(sub)) : SubSeq(msg, i + 1, i + Len(sub)) = sub

IsCounter(e) == e.kind = "counter" /\ e.name = "compression"
CounterEvents == SelectSeq(events, IsCounter)

\* the caller's handle is the file it was when the invocation started
HandleUntouched ==
    /\ src.id = orig.id
    /\ fs[orig.id].live
    /\ fs[orig.id].path = orig.path
    /\ fs[orig.id].content = orig.content

\* C1: whenever the call is returning or has returned an error, the caller's
\* handle is still the original file, which exists with its path and content
\* unchanged; the handles have not been exchanged.
C1_FailureLeavesHandle ==
    (pc \in {"exit", "done"} /\ result.status = "Err") => HandleUntouched

\* C1 witness: the tool ran, wrote into the new file and exited with a failure
C1_Witness ==
    /\ pc = "done"
    /\ result.status = "Err"
    /\ result.at = "status"
    /\ child = "exited_failure"

\* C2 (as claimed): a successful call on a zstd, gzip, zlib or zip stream leaves
\* the caller with a new live file in the same directory holding the plaintext.
C2_InProcessRoundTrip ==
    (pc = "done" /\ result.status = "Ok" /\ TableKind(orig.content) \in InProcess)
        => /\ src.id # orig.id
           /\ fs[src.id].live
           /\ Parent(PathOf(src)) = Parent(orig.path)
           /\ Content(src) = Plaintext(orig.content)

\* C3: after a successful call on the cab path the caller's handle is the file
\* created by tempfile_in_parent in this call, and its parent directory is the
\* parent directory of the original artifact.
C3_SwappedInSameParent ==
    (pc = "done" /\ result.status = "Ok" /\ branch = "cab")
        => /\ src.id = NewId
           /\ fs[src.id].live
           /\ Parent(PathOf(src)) = Parent(orig.path)
           /\ PathOf(src) # orig.path

\* C3 witness: a swap for an artifact that is not in the default directory
C3_Witness ==
    /\ pc = "done"
    /\ result.status = "Ok"
    /\ branch = "cab"
    /\ src.id = NewId
    /\ Parent(orig.path) = <<"cache", "objects">>

\* C4: after a successful swap exactly one file exists, the new one, owned by
\* the caller's handle; the original file is deleted and no other handle is left.
C4_OneLiveAfterSwap ==
    (pc = "done" /\ result.status = "Ok" /\ branch = "cab")
        => /\ src.id # orig.id
           /\ Live = {src.id}
           /\ ~fs[orig.id].live
           /\ dst = NoHandle

\* C4 witness: the second invocation swapped as well, two files were deleted
C4_Witness ==
    /\ pc = "done"
    /\ result.status = "Ok"
    /\ branch = "cab"
    /\ calls = 2
    /\ src.id = 3
    /\ Live = {3}

\* C5: the branch taken is the one the table gives for the length and the
\* first 4 bytes of the file, and no file matches two rows of the table.
C5_BranchIsTableKind ==
    branch # "unset"
        => /\ Cardinality(Rows(orig.content)) <= 1
           /\ Classification(branch) = TableKind(orig.content)
           /\ (Len(orig.content) < 4 => Classification(branch) = "none")

\* C5 witness: a zlib prefix with the 9c second byte
C5_Witness ==
    /\ branch = "zlib"
    /\ magic_bytes[2] = 156

\* C6 (as claimed): every invocation that classified the artifact has emitted
\* the compression counter exactly once, tagged with the detected kind.
C6_CounterOncePerCall ==
    (pc = "done" /\ branch # "unset")
        => /\ Len(CounterEvents) = 1
           /\ CounterEvents[1].tag = Classification(branch)

\* C7: for an artifact the table classifies as none, every call returns
\* success (or the error of a failed flush, stat, seek or read) with the same
\* handle, path and content and no other file, after the first and the second call.
C7_NoneIsNoOp ==
    (pc = "done" /\ TableKind(artifact0.content) = "none")
        => /\ \/ result.status = "Ok"
              \/ /\ result.kind = "Other"
                 /\ result.at \in {"sync_all", "metadata", "rewind", "read_exact", "rewind2"}
           /\ src.id = artifact0.id
           /\ fs[src.id] = [live |-> TRUE, path |-> artifact0.path,
                            content |-> artifact0.content]
           /\ Live = {artifact0.id}
           /\ dst = NoHandle

\* C7 witness: the second call on an unrecognised 4-byte artifact has returned Ok
C7_Witness ==
    /\ pc = "done"
    /\ calls = 2
    /\ result.status = "Ok"
    /\ branch = "none"
    /\ TableKind(artifact0.content) = "none"

\* C8 (as claimed): after any failure of the external tool the call has
\* returned an error whose message holds the tool's name and the captured stderr.
C8_ToolFailureNamesTool ==
    (pc = "done" /\ child \in {"spawn_failed", "exited_failure"})
        => /\ result.status = "Err"
           /\ ContainsTokens(result.msg, <<Tool>>)
           /\ ContainsTokens(result.msg, Utf8Lossy(output.stderr))

\* C8 (amended): after any failure of the external tool the call has returned
\* an error; when the tool ran and exited with a failure status the message
\* holds the tool's name and the lossily decoded stderr; when the tool could
\* not be spawned the error is the spawn's own.
C8_ExitFailureNamesTool ==
    pc = "done"
        => /\ child = "exited_failure"
                => /\ result.status = "Err"
                   /\ result.kind = "InvalidData"
                   /\ ContainsTokens(result.msg, <<Tool>>)
                   /\ ContainsTokens(result.msg, Utf8Lossy(output.stderr))
           /\ child = "spawn_failed"
                => /\ result.status = "Err"
                   /\ result.at = "spawn"
                   /\ ~ContainsTokens(result.msg, <<Tool>>)

\* C8 witness: cabextract exited with a failure and stderr that is not UTF-8
C8_Witness ==
    /\ pc = "done"
    /\ child = "exited_failure"
    /\ ~windows
    /\ output.stderr = <<"bad", "\\xFF">>
    /\ result.msg[2] = "cabextract"

\* C9: once the sniffing step is passed (the early return for a short file, or
\* the match is reached) and for as long as the caller's handle is the original
\* file, its cursor is at 0 and its content is the original content.
C9_SniffLeavesFile ==
    ((branch # "unset" \/ pc = "match") /\ src.id = orig.id)
        => /\ src.cursor = 0
           /\ fs[src.id].live
           /\ Content(src) = orig.content

\* C9 witness: the 4 bytes of a gzip prefix were read and the match is reached
C9_Witness ==
    /\ pc = "match"
    /\ magic_bytes = <<31, 139, 0, 0>>
    /\ src.cursor = 0
    /\ calls = 1

\* C10: when the call returns after tempfile_in_parent created the new file,
\* exactly one file exists, the one the caller's handle owns: the original
\* after a failure, the new one after a success.
C10_NoTempFileLeaked ==
    (pc = "done" /\ branch = "cab" /\ result.at # "tempfile")
        => /\ Live = {src.id}
           /\ result.status = "Err" => (src.id = orig.id /\ ~fs[NewId].live)
           /\ result.status = "Ok" => (src.id = NewId /\ ~fs[orig.id].live)

\* C10 witness: dst.reopen() failed after the new file was created
C10_Witness ==
    /\ pc = "done"
    /\ result.at = "reopen"
    /\ Live = {orig.id}

====
